---------------------------- MODULE Spec2Model ----------------------------
(***************************************************************************)
(* Geo-bucket location normalization service.                              *)
(*                                                                         *)
(* A string is a sequence of one-character strings.  Coordinates are       *)
(* integers in units of 1e-4 degree, grid cells in units of 1e-3 degree.   *)
(* The store is PostgreSQL at READ COMMITTED: every query and every commit *)
(* (flush + COMMIT) of a session is one atomic step on the committed       *)
(* state, and sessions interleave between those steps.                     *)
(***************************************************************************)
EXTENDS Integers, Sequences, FiniteSets, TLC

(***************************************************************************)
(* Characters                                                              *)
(***************************************************************************)

\* The characters of the model in code-point order.
CharOrder ==
    <<"\t"," ",",","-",".","0","1","2","3","4","5","6","7","8","9",
      "A","B","C","D","E","F","G","H","I","J","K","L","M","N","O","P","Q","R",
      "S","T","U","V","W","X","Y","Z","_",
      "a","b","c","d","e","f","g","h","i","j","k","l","m","n","o","p","q","r",
      "s","t","u","v","w","x","y","z">>

\* ord(c): the position of c in that order
OrdTable ==
    [c \in {CharOrder[i] : i \in 1..Len(CharOrder)} |->
        CHOOSE i \in 1..Len(CharOrder) : CharOrder[i] = c]

Ord(c) == OrdTable[c]

\* str.lower() on one character
Lower(c) == LET i == Ord(c) IN IF i \in 16..41 THEN CharOrder[i + 27] ELSE c

\* \s of the regular expression, and the separators of str.split()/strip()
IsSpace(c) == c \in {"\t", " "}

\* \w of the regular expression: letters, digits and the underscore
IsWord(c) == Ord(c) \in (6..15) \cup (16..41) \cup {42} \cup (43..68)

\* Python's order on strings: code points, a proper prefix first
RECURSIVE StrLess(_, _)
StrLess(s, t) ==
    IF t = << >> THEN FALSE
    ELSE IF s = << >> THEN TRUE
    ELSE IF Head(s) # Head(t) THEN Ord(Head(s)) < Ord(Head(t))
    ELSE StrLess(Tail(s), Tail(t))

\* Python's  n in s  on strings
IsSubstring(n, s) ==
    \E i \in 0..(Len(s) - Len(n)) : SubSeq(s, i + 1, i + Len(n)) = n

\* Python's  x in list
InList(x, xs) == \E i \in 1..Len(xs) : xs[i] = x

(***************************************************************************)
(* Text normalizer                                                         *)
(***************************************************************************)

LOCATION_STOP_WORDS ==
    { <<"l","a","g","o","s">>, <<"n","i","g","e","r","i","a">>,
      <<"s","t","a","t","e">>, <<"l","g","a">>, <<"a","r","e","a">>,
      <<"e","s","t","a","t","e">> }

LowerStr(s) == [i \in 1..Len(s) |-> Lower(s[i])]

RECURSIVE LStrip(_)
LStrip(s) == IF s # << >> /\ IsSpace(Head(s)) THEN LStrip(Tail(s)) ELSE s

RECURSIVE RStrip(_)
RStrip(s) ==
    IF s # << >> /\ IsSpace(s[Len(s)]) THEN RStrip(SubSeq(s, 1, Len(s) - 1))
    ELSE s

Strip(s) == RStrip(LStrip(s))

\* re.sub(r'[^\w\s]', ' ', name)
RemoveSpecial(s) ==
    [i \in 1..Len(s) |-> IF IsWord(s[i]) \/ IsSpace(s[i]) THEN s[i] ELSE " "]

\* str.split(): the maximal runs of non-space characters, in order
RECURSIVE SplitFrom(_, _, _)
SplitFrom(s, cur, acc) ==
    IF s = << >> THEN (IF cur = << >> THEN acc ELSE Append(acc, cur))
    ELSE IF IsSpace(Head(s))
         THEN SplitFrom(Tail(s), << >>,
                        IF cur = << >> THEN acc ELSE Append(acc, cur))
         ELSE SplitFrom(Tail(s), Append(cur, Head(s)), acc)

Split(s) == SplitFrom(s, << >>, << >>)

RemoveStopWords(tokens) ==
    SelectSeq(tokens, LAMBDA t : t \notin LOCATION_STOP_WORDS)

\* sorted(set(tokens))
RECURSIVE SortedSet(_)
SortedSet(S) ==
    IF S = {} THEN << >>
    ELSE LET m == CHOOSE x \in S : \A y \in S \ {x} : StrLess(x, y)
         IN  <<m>> \o SortedSet(S \ {m})

SortedTokens(tokens) == SortedSet({tokens[i] : i \in 1..Len(tokens)})

\* ' '.join(tokens)
RECURSIVE Join(_)
Join(tokens) ==
    IF tokens = << >> THEN << >>
    ELSE IF Len(tokens) = 1 THEN tokens[1]
    ELSE tokens[1] \o <<" ">> \o Join(Tail(tokens))

\* a slip: the stop words are removed before the special characters
normalize_location_StopWordsFirst(name) ==
    Join(SortedTokens(Split(RemoveSpecial(
        Join(RemoveStopWords(Split(Strip(LowerStr(name)))))))))

normalize_location(name) ==
    Join(SortedTokens(RemoveStopWords(Split(RemoveSpecial(Strip(LowerStr(name)))))))

(***************************************************************************)
(* Grid keyer                                                              *)
(***************************************************************************)

\* settings.GEO_BUCKET_GRID_SIZE = 0.005 degree, in units of 1e-4 degree
GEO_BUCKET_GRID_SIZE == 50

\* round(x / grid_size): nearest integer, a tie to the even one
RoundDiv(x, g) ==
    LET q == x \div g
        r == x % g
    IN  IF 2 * r < g THEN q
        ELSE IF 2 * r > g THEN q + 1
        ELSE IF q % 2 = 0 THEN q ELSE q + 1

\* round(x / grid_size) * grid_size, in units of 1e-3 degree
Cell(x) == RoundDiv(x, GEO_BUCKET_GRID_SIZE) * (GEO_BUCKET_GRID_SIZE \div 10)

Digit(d) == CharOrder[6 + d]

RECURSIVE Digits(_)
Digits(n) == IF n < 10 THEN <<Digit(n)>> ELSE Append(Digits(n \div 10), Digit(n % 10))

\* f"{v:.3f}" of a value of m thousandths
Format3(m) ==
    LET a == IF m < 0 THEN -m ELSE m
    IN  (IF m < 0 THEN <<"-">> ELSE << >>)
        \o Digits(a \div 1000) \o <<".">>
        \o <<Digit((a \div 100) % 10), Digit((a \div 10) % 10), Digit(a % 10)>>

\* a slip: the key is formatted from the coordinates, not from the cell
compute_bucket_key_Unrounded(lat, lng) ==
    LET bucket_lat == Cell(lat)
        bucket_lng == Cell(lng)
    IN  [bucket_key |-> Format3(lat \div 10) \o <<"_">> \o Format3(lng \div 10),
         bucket_lat |-> bucket_lat,
         bucket_lng |-> bucket_lng]

compute_bucket_key(lat, lng) ==
    LET bucket_lat == Cell(lat)
        bucket_lng == Cell(lng)
    IN  [bucket_key |-> Format3(bucket_lat) \o <<"_">> \o Format3(bucket_lng),
         bucket_lat |-> bucket_lat,
         bucket_lng |-> bucket_lng]

(***************************************************************************)
(* Inputs and bounds                                                       *)
(***************************************************************************)

\* concurrent sessions (requests in flight)
NProc == 2

\* create requests started in one behaviour
MaxCreates == 3

Procs == 1..NProc

Sangotedo == <<"S","a","n","g","o","t","e","d","o">>
SangotedoAjah == <<"S","a","n","g","o","t","e","d","o",","," ","A","j","a","h">>
SangotedoLagos == <<"s","a","n","g","o","t","e","d","o"," ","l","a","g","o","s">>
Lagos == <<"L","a","g","o","s">>

\* location_name of a create request
RawNames == {Sangotedo, SangotedoAjah, SangotedoLagos, Lagos}

\* location of a search request
Queries ==
    RawNames \cup
    { <<"S","A","N","G","O","T","E","D","O">>, <<"a","j","a","h">>,
      <<"u","n","k","n","o","w","n">> }

\* (lat, lng) of a create request: the first two in one grid cell
Coords == { <<64698, 36285>>, <<64720, 36301>>, <<64371, 34698>> }

(***************************************************************************)
(* State                                                                   *)
(***************************************************************************)

VARIABLES
    geo_buckets,    \* committed rows of geo_buckets: id -> row
    properties,     \* committed rows of properties: id -> row
    bucket_seq,     \* next value of geo_buckets.id
    property_seq,   \* next value of properties.id
    clock,          \* latest value get_current_time() has returned
    started,        \* create requests started so far
    pc,             \* per session: the position in create_property
    req,            \* per session: the arguments of its create request
    bucket,         \* per session: the GeoBucket object it holds
    err,            \* per session: the exception that ended its last request
    goc_commits,    \* per session: db.commit() calls of get_or_create_bucket
    pre,            \* the committed rows when the last create request began
                    \* (recorded where requests do not overlap)
    spc,            \* search session: position in search_properties_by_location
    sq,             \* its location_query
    all_buckets,    \* the rows its query of geo_buckets returned, in order
    buckets,        \* its matched buckets
    result,         \* what it returns: [properties, bucket]
    fpc,            \* a direct call of a pure function: its position
    fin,            \* its arguments
    fout            \* what it has returned

dbvars == <<geo_buckets, properties, bucket_seq, property_seq, clock>>
cvars == <<started, pc, req, bucket, err, goc_commits>>
svars == <<spc, sq, all_buckets, buckets, result>>
fvars == <<fpc, fin, fout>>
vars == <<dbvars, cvars, pre, svars, fvars, fvars>>

\* a GeoBucket object not yet loaded or inserted (id is None)
NoBucket ==
    [id |-> 0, bucket_key |-> << >>, canonical_name |-> << >>,
     centroid_lat |-> 0, centroid_lng |-> 0, aliases |-> << >>,
     property_count |-> 0]

NoRequest == [location_name |-> << >>, lat |-> 0, lng |-> 0]

Snapshot == [geo_buckets |-> geo_buckets, properties |-> properties]

NoResult == [properties |-> << >>, bucket |-> NoBucket]

\* the service after start-up: empty tables, no request in flight
StoreInit ==
    /\ geo_buckets = << >>
    /\ properties = << >>
    /\ bucket_seq = 1
    /\ property_seq = 1
    /\ clock = 0
    /\ started = 0
    /\ pc = [p \in Procs |-> "idle"]
    /\ req = [p \in Procs |-> NoRequest]
    /\ bucket = [p \in Procs |-> NoBucket]
    /\ err = [p \in Procs |-> "none"]
    /\ goc_commits = [p \in Procs |-> 0]
    /\ pre = Snapshot
    /\ spc = "idle"
    /\ sq = << >>
    /\ all_buckets = << >>
    /\ buckets = << >>
    /\ result = NoResult

Init ==
    /\ StoreInit
    /\ fpc = "idle"
    /\ fin = << >>
    /\ fout = << >>

\* a slip: the lookup without its filter on bucket_key
RowsByKey_NoFilter(key) == {geo_buckets[i] : i \in DOMAIN geo_buckets}

\* the committed row with this unique bucket_key, as a set (empty or one row)
RowsByKey(key) ==
    {geo_buckets[i] : i \in {j \in DOMAIN geo_buckets : geo_buckets[j].bucket_key = key}}

Quiescent(p) == pc[p] \in {"idle", "done", "failed"}

(***************************************************************************)
(* create_property, one action per round trip to the store                 *)
(***************************************************************************)

\* POST /api/properties: a fresh session (get_db) enters create_property
CreateStart(p, name, lat, lng) ==
    /\ Quiescent(p)
    /\ started < MaxCreates
    /\ started' = started + 1
    /\ pc' = [pc EXCEPT ![p] = "query"]
    /\ req' = [req EXCEPT ![p] = [location_name |-> name, lat |-> lat, lng |-> lng]]
    /\ bucket' = [bucket EXCEPT ![p] = NoBucket]
    /\ err' = [err EXCEPT ![p] = "none"]
    /\ goc_commits' = [goc_commits EXCEPT ![p] = 0]
    /\ UNCHANGED <<dbvars, svars, fvars>>

\* a slip: the new alias is not added to the list
AddAlias_NotAdded(b, normalized_name) == b

\* bucket.aliases = list(current_aliases) + [normalized_name]
AddAlias(b, normalized_name) ==
    [b EXCEPT !.aliases = Append(b.aliases, normalized_name)]

\* a slip: the canonical name without  or "unknown"
NewBucket_NoUnknown(k, normalized_name) ==
    [id |-> 0,
     bucket_key |-> k.bucket_key,
     canonical_name |-> normalized_name,
     centroid_lat |-> k.bucket_lat,
     centroid_lng |-> k.bucket_lng,
     aliases |-> IF normalized_name # << >> THEN <<normalized_name>> ELSE << >>,
     property_count |-> 0]

\* GeoBucket(bucket_key=..., canonical_name=normalized_name or "unknown", ...)
NewBucket(k, normalized_name) ==
    [id |-> 0,
     bucket_key |-> k.bucket_key,
     canonical_name |-> IF normalized_name # << >> THEN normalized_name
                        ELSE <<"u","n","k","n","o","w","n">>,
     centroid_lat |-> k.bucket_lat,
     centroid_lng |-> k.bucket_lng,
     aliases |-> IF normalized_name # << >> THEN <<normalized_name>> ELSE << >>,
     property_count |-> 0]

\* a slip: the alias is appended without the test  not in current_aliases
GetOrCreate_NoMembershipTest(b, k, normalized_name) ==
    IF b # NoBucket
    THEN IF normalized_name # << >>
         THEN [bucket |-> AddAlias(b, normalized_name), pc |-> "commit_alias"]
         ELSE [bucket |-> b, pc |-> "add_property"]
    ELSE [bucket |-> NewBucket(k, normalized_name), pc |-> "commit_bucket"]

\* get_or_create_bucket from its lookup by bucket_key to its first commit
GetOrCreate(b, k, normalized_name) ==
    IF b # NoBucket
    THEN IF normalized_name # << >> /\ ~InList(normalized_name, b.aliases)
         THEN [bucket |-> AddAlias(b, normalized_name), pc |-> "commit_alias"]
         ELSE [bucket |-> b, pc |-> "add_property"]
    ELSE [bucket |-> NewBucket(k, normalized_name), pc |-> "commit_bucket"]

\* db.query(GeoBucket).filter(GeoBucket.bucket_key == bucket_key).first()
QueryBucket(p) ==
    /\ pc[p] = "query"
    /\ LET k == compute_bucket_key(req[p].lat, req[p].lng)
           normalized_name == normalize_location(req[p].location_name)
           found == RowsByKey(k.bucket_key)
           b == IF found = {} THEN NoBucket ELSE CHOOSE r \in found : TRUE
           next == GetOrCreate(b, k, normalized_name)
       IN  /\ bucket' = [bucket EXCEPT ![p] = next.bucket]
           /\ pc' = [pc EXCEPT ![p] = next.pc]
    /\ UNCHANGED <<dbvars, pre, svars, fvars, started, req, err, goc_commits>>

\* db.commit() of the alias update: UPDATE geo_buckets SET aliases = ...
CommitAlias(p) ==
    /\ pc[p] = "commit_alias"
    /\ geo_buckets' = [geo_buckets EXCEPT ![bucket[p].id].aliases = bucket[p].aliases]
    /\ goc_commits' = [goc_commits EXCEPT ![p] = @ + 1]
    /\ pc' = [pc EXCEPT ![p] = "refresh_bucket"]
    /\ UNCHANGED <<properties, bucket_seq, property_seq, clock, pre, svars, fvars,
                   started, req, bucket, err>>

\* the unique constraint of GeoBucket.bucket_key
UniqueViolation(key) == RowsByKey(key) # {}

\* db.add(bucket); db.commit(): INSERT INTO geo_buckets; an IntegrityError
\* propagates to the endpoint
CommitBucket(p) ==
    /\ pc[p] = "commit_bucket"
    /\ bucket_seq' = bucket_seq + 1
    /\ IF UniqueViolation(bucket[p].bucket_key)
       THEN /\ pc' = [pc EXCEPT ![p] = "failed"]
            /\ err' = [err EXCEPT ![p] = "IntegrityError"]
            /\ req' = [req EXCEPT ![p] = NoRequest]
            /\ bucket' = [bucket EXCEPT ![p] = NoBucket]
            /\ UNCHANGED <<geo_buckets, goc_commits>>
       ELSE /\ geo_buckets' = (bucket_seq :> [bucket[p] EXCEPT !.id = bucket_seq]) @@ geo_buckets
            /\ bucket' = [bucket EXCEPT ![p].id = bucket_seq]
            /\ goc_commits' = [goc_commits EXCEPT ![p] = @ + 1]
            /\ pc' = [pc EXCEPT ![p] = "refresh_bucket"]
            /\ UNCHANGED <<req, err>>
    /\ UNCHANGED <<properties, property_seq, clock, pre, svars, fvars, started>>

\* db.refresh(bucket): reload the row
RefreshBucket(p) ==
    /\ pc[p] = "refresh_bucket"
    /\ bucket' = [bucket EXCEPT ![p] = geo_buckets[bucket[p].id]]
    /\ pc' = [pc EXCEPT ![p] = "add_property"]
    /\ UNCHANGED <<dbvars, pre, svars, fvars, started, req, err, goc_commits>>

\* Property(geo_bucket_id=bucket.id, ...), created_at = get_current_time()
NewProperty(id, b, r, now) ==
    [id |-> id,
     geo_bucket_id |-> b.id,
     location_name |-> r.location_name,
     lat |-> r.lat,
     lng |-> r.lng,
     created_at |-> now]

\* a slip: the count is written back without the increment
IncrementedCount_NoIncrement(b) == b.property_count

\* bucket.property_count = (bucket.property_count or 0) + 1
IncrementedCount(b) == b.property_count + 1

\* db.add(property_obj); bucket.property_count = ...; db.commit():
\* INSERT INTO properties and UPDATE geo_buckets SET property_count in one
\* transaction.  The clock has advanced since the previous insert.
CommitProperty(p) ==
    /\ pc[p] = "add_property"
    /\ clock' = clock + 1
    /\ properties' = (property_seq :> NewProperty(property_seq, bucket[p], req[p], clock'))
                     @@ properties
    /\ property_seq' = property_seq + 1
    /\ geo_buckets' = [geo_buckets EXCEPT
                         ![bucket[p].id].property_count = IncrementedCount(bucket[p])]
    /\ pc' = [pc EXCEPT ![p] = "refresh_property"]
    /\ UNCHANGED <<bucket_seq, pre, svars, fvars, started, req, bucket, err, goc_commits>>

\* db.refresh(property_obj); return property_obj; the session is closed
RefreshProperty(p) ==
    /\ pc[p] = "refresh_property"
    /\ pc' = [pc EXCEPT ![p] = "done"]
    /\ req' = [req EXCEPT ![p] = NoRequest]
    /\ bucket' = [bucket EXCEPT ![p] = NoBucket]
    /\ UNCHANGED <<dbvars, pre, svars, fvars, started, err, goc_commits>>

\* the store fails at a round trip (OperationalError): the open transaction is
\* rolled back, the exception propagates to the endpoint, the session is closed
StoreUnavailable(p) ==
    /\ ~Quiescent(p)
    /\ pc' = [pc EXCEPT ![p] = "failed"]
    /\ err' = [err EXCEPT ![p] = "OperationalError"]
    /\ req' = [req EXCEPT ![p] = NoRequest]
    /\ bucket' = [bucket EXCEPT ![p] = NoBucket]
    /\ UNCHANGED <<dbvars, pre, svars, fvars, started, goc_commits>>

(***************************************************************************)
(* Location matcher and search                                             *)
(***************************************************************************)

\* the orders in which a query without ORDER BY may return the rows S
RECURSIVE Orders(_)
Orders(S) ==
    IF S = {} THEN { << >> }
    ELSE UNION { { <<x>> \o t : t \in Orders(S \ {x}) } : x \in S }

Range(f) == {f[i] : i \in DOMAIN f}

\* for alias in aliases: if normalized_query in alias: append; break
RECURSIVE AliasLoop(_, _, _)
AliasLoop(aliases, normalized_query, b) ==
    IF aliases = << >> THEN << >>
    ELSE IF IsSubstring(normalized_query, Head(aliases)) THEN <<b>>
    ELSE AliasLoop(Tail(aliases), normalized_query, b)

\* a slip: the partial-match step is left out
MatchBucket_NoPartial(b, normalized_query) ==
    IF LowerStr(b.canonical_name) = normalized_query THEN <<b>>
    ELSE IF InList(normalized_query, b.aliases) THEN <<b>>
    ELSE << >>

\* one iteration of the loop over all_buckets: what it appends to matched_buckets
MatchBucket(b, normalized_query) ==
    IF LowerStr(b.canonical_name) = normalized_query THEN <<b>>
    ELSE IF InList(normalized_query, b.aliases) THEN <<b>>
    ELSE IF IsSubstring(normalized_query, LowerStr(b.canonical_name)) THEN <<b>>
    ELSE AliasLoop(b.aliases, normalized_query, b)

RECURSIVE MatchLoop(_, _)
MatchLoop(rows, normalized_query) ==
    IF rows = << >> THEN << >>
    ELSE MatchBucket(Head(rows), normalized_query)
         \o MatchLoop(Tail(rows), normalized_query)

\* find_buckets_by_location after db.query(GeoBucket).all() returned rows
find_buckets_by_location(rows, location_query) ==
    LET normalized_query == normalize_location(location_query)
    IN  IF normalized_query = << >> THEN << >>
        ELSE MatchLoop(rows, normalized_query)

\* a slip: ORDER BY created_at (ascending)
OrderedDesc_Ascending(ps) ==
    \A i \in 1..(Len(ps) - 1) : ps[i].created_at <= ps[i + 1].created_at

\* ORDER BY created_at DESC
OrderedDesc(ps) ==
    \A i \in 1..(Len(ps) - 1) : ps[i].created_at >= ps[i + 1].created_at

\* Property.geo_bucket_id.in_(bucket_ids)
InBuckets(prop, bs) == \E i \in 1..Len(bs) : bs[i].id = prop.geo_bucket_id

\* GET /api/properties/search: find_buckets_by_location, and the return of
\* search_properties_by_location when no bucket matches
SearchMatch(q) ==
    /\ spc = "idle"
    /\ sq' = q
    /\ \E rows \in (IF normalize_location(q) = << >> THEN { << >> }
                    ELSE Orders(Range(geo_buckets))) :
         /\ all_buckets' = rows
         /\ buckets' = find_buckets_by_location(rows, q)
    /\ spc' = IF buckets' = << >> THEN "done" ELSE "fetch"
    /\ result' = NoResult
    /\ UNCHANGED <<dbvars, cvars, pre, fvars>>

\* the query of properties, and the return properties, buckets[0]
SearchFetch ==
    /\ spc = "fetch"
    /\ \E ps \in Orders({r \in Range(properties) : InBuckets(r, buckets)}) :
         /\ OrderedDesc(ps)
         /\ result' = [properties |-> ps, bucket |-> buckets[1]]
    /\ spc' = "done"
    /\ UNCHANGED <<dbvars, cvars, pre, fvars, sq, all_buckets, buckets>>

\* the response is sent and the session closed
SearchReturn ==
    /\ spc = "done"
    /\ spc' = "idle"
    /\ sq' = << >>
    /\ all_buckets' = << >>
    /\ buckets' = << >>
    /\ result' = NoResult
    /\ UNCHANGED <<dbvars, cvars, pre, fvars>>

(***************************************************************************)
(* Specifications                                                          *)
(***************************************************************************)

CreateStep(p) ==
    \/ QueryBucket(p)
    \/ CommitAlias(p)
    \/ CommitBucket(p)
    \/ RefreshBucket(p)
    \/ CommitProperty(p)
    \/ RefreshProperty(p)
    \/ StoreUnavailable(p)

\* create requests of concurrent sessions interleave at every round trip
CreateNext ==
    \/ \E p \in Procs : \E name \in RawNames : \E c \in Coords :
          CreateStart(p, name, c[1], c[2]) /\ UNCHANGED pre
    \/ \E p \in Procs : CreateStep(p)

SearchNext ==
    \/ \E q \in Queries : SearchMatch(q)
    \/ SearchFetch
    \/ SearchReturn

\* the whole service: create and search requests in flight together
Next == CreateNext \/ SearchNext

Spec == Init /\ [][Next]_vars

\* the create requests alone (a search writes nothing)
SpecCreate == Init /\ [][CreateNext]_vars

\* no request in flight
AllQuiet == spc = "idle" /\ \A p \in Procs : Quiescent(p)

\* one request at a time, each in a fresh session
SeqNext ==
    \/ /\ AllQuiet
       /\ \E name \in RawNames : \E c \in Coords :
             CreateStart(1, name, c[1], c[2]) /\ pre' = Snapshot
    \/ CreateStep(1)
    \/ /\ AllQuiet
       /\ \E q \in Queries : SearchMatch(q)
    \/ SearchFetch
    \/ SearchReturn

SpecSeq == Init /\ [][SeqNext]_vars

(***************************************************************************)
(* The pure functions called directly                                      *)
(***************************************************************************)

\* latitudes and longitudes in units of 1e-4 degree, both signs and zero
KeyLats == {-64698, -26, -12, 0, 12, 64371, 64698, 64705, 64720, 64726}
KeyLngs == {-36285, 0, 34698, 36285, 36290, 36301, 36326}

KeyCoords == KeyLats \X KeyLngs

\* two calls of compute_bucket_key are to be made
KeyInit ==
    /\ StoreInit
    /\ fpc = "idle"
    /\ fin \in KeyCoords \X KeyCoords
    /\ fout = << >>

\* compute_bucket_key(lat, lng) for each of the two coordinate pairs
KeyCall ==
    /\ fpc = "idle"
    /\ fpc' = "returned"
    /\ fout' = <<compute_bucket_key(fin[1][1], fin[1][2]),
                 compute_bucket_key(fin[2][1], fin[2][2])>>
    /\ UNCHANGED <<dbvars, cvars, pre, svars, fin>>

KeyNext == KeyCall

SpecKey == KeyInit /\ [][KeyNext]_vars

\* longest location name passed to normalize_location
MaxLen == 5

\* its characters: letters of both cases (those of the stop word "lga"), a
\* digit, the underscore, punctuation and white space
NameChars == {"l", "g", "a", "A", "1", "_", ",", " "}

Names == UNION { [1..n -> NameChars] : n \in 0..MaxLen }

\* a call of normalize_location is to be made
NormalizeInit ==
    /\ StoreInit
    /\ fpc = "idle"
    /\ fin \in Names
    /\ fout = << >>

\* normalize_location(name)
NormalizeCall ==
    /\ fpc = "idle"
    /\ fpc' = "once"
    /\ fout' = <<normalize_location(fin)>>
    /\ UNCHANGED <<dbvars, cvars, pre, svars, fin>>

\* normalize_location of what the first call returned
NormalizeAgain ==
    /\ fpc = "once"
    /\ fpc' = "twice"
    /\ fout' = Append(fout, normalize_location(fout[1]))
    /\ UNCHANGED <<dbvars, cvars, pre, svars, fin>>

NormalizeNext == NormalizeCall \/ NormalizeAgain

SpecNormalize == NormalizeInit /\ [][NormalizeNext]_vars

\* longest of two location names normalized side by side
MaxPairLen == 3

PairChars == {"a", "b", "_", ",", " "}

PairNames == UNION { [1..n -> PairChars] : n \in 0..MaxPairLen }

\* normalize_location is to be called on each of two names
PairInit ==
    /\ StoreInit
    /\ fpc = "idle"
    /\ fin \in PairNames \X PairNames
    /\ fout = << >>

\* normalize_location(s1) and normalize_location(s2)
NormalizeBoth ==
    /\ fpc = "idle"
    /\ fpc' = "both"
    /\ fout' = <<normalize_location(fin[1]), normalize_location(fin[2])>>
    /\ UNCHANGED <<dbvars, cvars, pre, svars, fin>>

PairNext == NormalizeBoth

SpecPair == PairInit /\ [][PairNext]_vars

(***************************************************************************)
(* Statistics                                                              *)
(***************************************************************************)

RECURSIVE SumCounts(_)
SumCounts(S) ==
    IF S = {} THEN 0
    ELSE LET i == CHOOSE x \in S : TRUE
         IN  geo_buckets[i].property_count + SumCounts(S \ {i})

\* get_bucket_stats: total_buckets and total_properties
get_bucket_stats ==
    [total_buckets |-> Cardinality(DOMAIN geo_buckets),
     total_properties |-> SumCounts(DOMAIN geo_buckets)]

(***************************************************************************)
(* Properties                                                              *)
(***************************************************************************)

\* the listings that reference bucket i
ListingsOf(i) == {j \in DOMAIN properties : properties[j].geo_bucket_id = i}

CountsMatch ==
    \A i \in DOMAIN geo_buckets :
        geo_buckets[i].property_count = Cardinality(ListingsOf(i))

\* C1: with create requests that do not overlap, each completing or failing
\* part-way, every bucket's property_count equals the number of listings that
\* reference it, and the statistics' total_properties equals the number of
\* stored listings.
C1_CountEqualsListings ==
    /\ CountsMatch
    /\ get_bucket_stats.total_properties = Cardinality(DOMAIN properties)

\* two creates into one bucket have succeeded, and a create has failed
\* part-way leaving a bucket without listings
C1_Witness ==
    /\ pc[1] = "failed"
    /\ \E i \in DOMAIN geo_buckets : geo_buckets[i].property_count = 2
    /\ \E i \in DOMAIN geo_buckets : geo_buckets[i].property_count = 0

\* C2: a create request that fails at any step leaves the buckets (their
\* aliases and counts included) and the listings as they were when it began.
C2_FailedCreateCommitsNothing ==
    pc[1] = "failed" => Snapshot = pre

\* C3: the create request that loses the race on a new bucket_key does not
\* fail on the unique constraint.
C3_RaceLoserDoesNotFail ==
    \A p \in Procs : err[p] # "IntegrityError"

\* C4: when create requests into one bucket have interleaved and all have
\* committed, the bucket's property_count equals the number of listings that
\* reference it.
C4_NoLostIncrement ==
    (\A p \in Procs : pc[p] \in {"idle", "done"}) => CountsMatch

\* the non-empty normalized location name of every listing is an alias of
\* the listing's bucket
AliasesKept ==
    \A j \in DOMAIN properties :
        LET n == normalize_location(properties[j].location_name)
        IN  n # << >> => InList(n, geo_buckets[properties[j].geo_bucket_id].aliases)

\* C5: when create requests into one bucket have interleaved and all have
\* committed, the non-empty normalized location name of each of their
\* listings is among the bucket's aliases.
C5_NoAliasDropped ==
    (\A p \in Procs : pc[p] \in {"idle", "done"}) => AliasesKept

InResult(j) == \E i \in 1..Len(result.properties) : result.properties[i].id = j

\* the store holds exactly three listings, named "Sangotedo", "Sangotedo, Ajah"
\* and "sangotedo lagos", in one bucket
SangotedoExample ==
    /\ Cardinality(DOMAIN properties) = 3
    /\ {properties[j].location_name : j \in DOMAIN properties}
         = {Sangotedo, SangotedoAjah, SangotedoLagos}
    /\ Cardinality({properties[j].geo_bucket_id : j \in DOMAIN properties}) = 1

\* C6: after creates that do not overlap, a search whose query normalizes to
\* the non-empty normalized location name of a stored listing returns that
\* listing and every listing of its bucket; with the three Sangotedo listings
\* in one cell, a search for a form of "sangotedo" returns exactly those three.
C6_VariantsResolve ==
    spc = "done" =>
        LET n == normalize_location(sq)
        IN  /\ \A j \in DOMAIN properties :
                  (n # << >> /\ normalize_location(properties[j].location_name) = n)
                  => \A k \in ListingsOf(properties[j].geo_bucket_id) : InResult(k)
            /\ (SangotedoExample /\ n = LowerStr(Sangotedo))
                  => /\ Len(result.properties) = 3
                     /\ \A j \in DOMAIN properties : InResult(j)

\* the three Sangotedo listings are stored and "SANGOTEDO" has been searched
C6_Witness ==
    /\ spc = "done"
    /\ SangotedoExample
    /\ sq = <<"S","A","N","G","O","T","E","D","O">>
    /\ Len(result.properties) = 3

\* the three steps of the matcher as one condition on a bucket
MatchesQuery(b, n) ==
    \/ n = LowerStr(b.canonical_name)
    \/ \E i \in 1..Len(b.aliases) : b.aliases[i] = n
    \/ IsSubstring(n, LowerStr(b.canonical_name))
    \/ \E i \in 1..Len(b.aliases) : IsSubstring(n, b.aliases[i])

\* C7: the matcher returns the empty sequence when the query normalizes to the
\* empty string; otherwise it reads every stored bucket once and returns, in
\* the order read and once each, exactly the buckets whose canonical name or
\* aliases equal or contain the normalized query.
C7_MatchExactly ==
    spc \in {"fetch", "done"} =>
        LET n == normalize_location(sq)
        IN  IF n = << >> THEN buckets = << >>
            ELSE /\ Len(all_buckets) = Cardinality(DOMAIN geo_buckets)
                 /\ {all_buckets[i] : i \in 1..Len(all_buckets)} = Range(geo_buckets)
                 /\ buckets = SelectSeq(all_buckets, LAMBDA b : MatchesQuery(b, n))

\* of two stored buckets the second one read is matched, and only because the
\* query is a proper part of one of its names
C7_Witness ==
    /\ spc = "fetch"
    /\ Len(all_buckets) = 2
    /\ buckets = <<all_buckets[2]>>
    /\ normalize_location(sq) # LowerStr(buckets[1].canonical_name)
    /\ ~InList(normalize_location(sq), buckets[1].aliases)

\* C8: a search returns the empty list and no bucket when the matcher returns
\* nothing; otherwise it returns, once each and by created_at descending,
\* exactly the listings whose bucket is among the matched ones, and the first
\* matched bucket.
C8_SearchResult ==
    spc = "done" =>
        IF buckets = << >> THEN result = [properties |-> << >>, bucket |-> NoBucket]
        ELSE LET ps == result.properties
             IN  /\ {ps[i] : i \in 1..Len(ps)}
                      = {properties[j] : j \in
                           {k \in DOMAIN properties :
                              \E i \in 1..Len(buckets) :
                                 buckets[i].id = properties[k].geo_bucket_id}}
                 /\ \A i, j \in 1..Len(ps) : i # j => ps[i] # ps[j]
                 /\ \A i, j \in 1..Len(ps) : i < j => ps[i].created_at >= ps[j].created_at
                 /\ result.bucket = buckets[1]

\* a search has returned the two listings of the one matched bucket and not
\* the listing of the other bucket
C8_Witness ==
    /\ spc = "done"
    /\ Len(buckets) = 1
    /\ Len(result.properties) = 2
    /\ Cardinality(DOMAIN properties) = 3

C9_Referential ==
    \A j \in DOMAIN properties :
        /\ properties[j].geo_bucket_id \in DOMAIN geo_buckets
        /\ geo_buckets[properties[j].geo_bucket_id].bucket_key
             = compute_bucket_key(properties[j].lat, properties[j].lng).bucket_key

C9_Frame ==
    /\ DOMAIN geo_buckets \subseteq DOMAIN geo_buckets'
    /\ \A j \in DOMAIN properties :
          /\ j \in DOMAIN properties'
          /\ properties'[j].geo_bucket_id = properties[j].geo_bucket_id
          /\ properties'[j].lat = properties[j].lat
          /\ properties'[j].lng = properties[j].lng

\* C9: in every reachable state each listing's geo_bucket_id is the id of a
\* stored bucket whose bucket_key is the grid key of the listing's coordinates,
\* and no step deletes a bucket or a listing or changes a listing's
\* geo_bucket_id, lat or lng.
C9_ListingBucket == [] C9_Referential /\ [][C9_Frame]_vars

\* two listings at different coordinates share a bucket, a third listing is in
\* another bucket, and a create request is in flight
C9_Witness ==
    /\ \E j, k \in DOMAIN properties :
          /\ properties[j].geo_bucket_id = properties[k].geo_bucket_id
          /\ properties[j].lat # properties[k].lat
    /\ Cardinality({properties[j].geo_bucket_id : j \in DOMAIN properties}) = 2

NoDuplicates(xs) == \A i, j \in 1..Len(xs) : i # j => xs[i] # xs[j]

\* the bucket of the request's grid cell as it was when the request began
PreRows(p) ==
    LET key == compute_bucket_key(req[p].lat, req[p].lng).bucket_key
    IN  {pre.geo_buckets[i] : i \in
           {j \in DOMAIN pre.geo_buckets : pre.geo_buckets[j].bucket_key = key}}

\* C10: with creates that do not overlap, every bucket's aliases are distinct,
\* non-empty and normalized; and when get_or_create_bucket returns a bucket
\* that existed, either the normalized location name was non-empty and new,
\* and the bucket's aliases are the earlier ones followed by it, or the stored
\* buckets are unchanged and nothing was committed.
C10_AliasAccrual ==
    /\ \A i \in DOMAIN geo_buckets :
          /\ NoDuplicates(geo_buckets[i].aliases)
          /\ \A a \in Range(geo_buckets[i].aliases) :
                a # << >> /\ normalize_location(a) = a
    /\ (pc[1] = "add_property" /\ PreRows(1) # {}) =>
          LET old == CHOOSE r \in PreRows(1) : TRUE
              n == normalize_location(req[1].location_name)
          IN  IF n # << >> /\ ~InList(n, old.aliases)
              THEN /\ geo_buckets =
                        [pre.geo_buckets EXCEPT ![old.id].aliases = old.aliases \o <<n>>]
                   /\ bucket[1] = geo_buckets[old.id]
              ELSE /\ geo_buckets = pre.geo_buckets
                   /\ bucket[1] = old
                   /\ goc_commits[1] = 0

\* get_or_create_bucket has appended a second alias to a bucket that existed
C10_Witness ==
    /\ pc[1] = "add_property"
    /\ PreRows(1) # {}
    /\ goc_commits[1] = 1
    /\ Len(bucket[1].aliases) = 2

\* row is the bucket of request r's grid cell, named by r alone, uncounted
CreatedFor(row, r) ==
    LET n == normalize_location(r.location_name)
    IN  /\ row.bucket_key = compute_bucket_key(r.lat, r.lng).bucket_key
        /\ row.canonical_name = (IF n = << >> THEN <<"u","n","k","n","o","w","n">> ELSE n)
        /\ row.aliases = (IF n = << >> THEN << >> ELSE <<n>>)
        /\ row.centroid_lat = Cell(r.lat)
        /\ row.centroid_lng = Cell(r.lng)
        /\ row.property_count = 0

C11_Step ==
    /\ \A i \in (DOMAIN geo_buckets') \ (DOMAIN geo_buckets) :
          /\ \A j \in DOMAIN geo_buckets :
                geo_buckets[j].bucket_key # geo_buckets'[i].bucket_key
          /\ \E p \in Procs :
                /\ pc[p] = "commit_bucket"
                /\ pc'[p] = "refresh_bucket"
                /\ CreatedFor(geo_buckets'[i], req[p])
    /\ \A i \in DOMAIN geo_buckets :
          /\ i \in DOMAIN geo_buckets'
          /\ geo_buckets'[i].bucket_key = geo_buckets[i].bucket_key
          /\ geo_buckets'[i].canonical_name = geo_buckets[i].canonical_name
          /\ geo_buckets'[i].centroid_lat = geo_buckets[i].centroid_lat
          /\ geo_buckets'[i].centroid_lng = geo_buckets[i].centroid_lng

\* C11: every step that stores a new bucket is the first commit of a create
\* request whose grid cell had no bucket, and the new row has the request's
\* grid key, canonical_name = its normalized location name ("unknown" when
\* that is empty), aliases = [that name] ([] when empty), the rounded cell as
\* centroid and property_count = 0; and no step removes a bucket or changes a
\* stored bucket's bucket_key, canonical_name or centroid.
C11_BucketCreation == [][C11_Step]_vars

\* a bucket created as "unknown" has since received an alias and two listings,
\* and another bucket has been created under its normalized name
C11_Witness ==
    \E i, j \in DOMAIN geo_buckets :
        /\ geo_buckets[i].canonical_name = <<"u","n","k","n","o","w","n">>
        /\ geo_buckets[i].aliases = <<LowerStr(Sangotedo)>>
        /\ geo_buckets[i].property_count = 2
        /\ geo_buckets[j].canonical_name = LowerStr(Sangotedo)
        /\ geo_buckets[j].aliases = <<LowerStr(Sangotedo)>>

\* "6.470_3.630"
Key_6470_3630 == <<"6",".","4","7","0","_","3",".","6","3","0">>

\* C12: two coordinate pairs for which compute_bucket_key returns the same
\* bucket_lat and the same bucket_lng get the same bucket_key; (6.4698, 3.6285),
\* (6.4720, 3.6301) and (6.4705, 3.6290) get "6.470_3.630" with the cell
\* (6.470, 3.630); (6.4698, 3.6285) and (6.4371, 3.4698) get different keys.
C12_KeyOfCell ==
    fpc = "returned" =>
        /\ (fout[1].bucket_lat = fout[2].bucket_lat
              /\ fout[1].bucket_lng = fout[2].bucket_lng)
             => fout[1].bucket_key = fout[2].bucket_key
        /\ fin[1] \in { <<64698, 36285>>, <<64720, 36301>>, <<64705, 36290>> }
             => fout[1] = [bucket_key |-> Key_6470_3630,
                           bucket_lat |-> 6470, bucket_lng |-> 3630]
        /\ fin = << <<64698, 36285>>, <<64371, 34698>> >>
             => fout[1].bucket_key # fout[2].bucket_key

\* the keys of (6.4698, 3.6285) and (6.4705, 3.6290) have been computed
C12_Witness ==
    /\ fpc = "returned"
    /\ fin = << <<64698, 36285>>, <<64705, 36290>> >>
    /\ fout[1].bucket_key = fout[2].bucket_key

\* C13: normalize_location applied to its own result returns that result.
C13_Idempotent ==
    fpc = "twice" => fout[2] = fout[1]

\* "g,A" has been normalized to "a g", and that normalized again
C13_Witness ==
    /\ fpc = "twice"
    /\ fin = <<"g", ",", "A">>
    /\ fout[1] = <<"a", " ", "g">>

IsLetterOrDigit(c) == Ord(c) \in (6..15) \cup (16..41) \cup (43..68)

\* the lowercased input with every character that is not a letter, a digit or
\* white space replaced by a space, split at white space
WordsOf(s) ==
    Split([i \in 1..Len(s) |->
             IF IsLetterOrDigit(s[i]) \/ IsSpace(s[i]) THEN Lower(s[i]) ELSE " "])

\* C14: two names with the same non-empty set of words (the runs of letters and digits
\* between white space and punctuation, in any order and any number of times)
\* have the same normalized form.
C14_OrderInvariant ==
    fpc = "both" =>
        ((WordsOf(fin[1]) # << >> /\ Range(WordsOf(fin[1])) = Range(WordsOf(fin[2])))
            => fout[1] = fout[2])

\* C15: the result of normalize_location consists of lowercase letters, digits
\* and single spaces between tokens; none of its tokens is a stop word; its
\* tokens are distinct and in ascending order; and it is empty exactly when
\* every maximal run of letters and digits of the input is a stop word.
C15_NormalForm ==
    fpc = "once" =>
        LET r == fout[1]
            tokens == Split(r)
        IN  /\ \A i \in 1..Len(r) :
                  Ord(r[i]) \in (6..15) \cup (43..68) \/ r[i] = " "
            /\ r = Join(tokens)
            /\ \A i \in 1..Len(tokens) : tokens[i] \notin LOCATION_STOP_WORDS
            /\ \A i, j \in 1..Len(tokens) : i < j => StrLess(tokens[i], tokens[j])
            /\ (r = << >>) <=>
                  (\A i \in 1..Len(WordsOf(fin)) :
                      WordsOf(fin)[i] \in LOCATION_STOP_WORDS)

\* the normalized location names given for bucket b: those of its listings,
\* and its aliases (each the normalized name of a create request mapped to b)
NamesGiven(b) ==
    {normalize_location(properties[j].location_name) : j \in ListingsOf(b.id)}
        \cup Range(geo_buckets[b.id].aliases)

\* C16: with requests that do not overlap, the normalized query of a search is
\* a substring of a normalized location name given for each bucket the matcher
\* returns.
C16_MatchedByGivenName ==
    spc \in {"fetch", "done"} =>
        \A i \in 1..Len(buckets) :
            \E n \in NamesGiven(buckets[i]) : IsSubstring(normalize_location(sq), n)

=============================================================================
